---- MODULE Spec2Model ----
(***************************************************************************)
(* Model of the spin engine of src/src/SlotMachine.tsx (SlotMachineInner). *)
(*                                                                         *)
(* Time.  One time unit is 50 ms, the grace delay of line 300.  The code   *)
(* reads two clocks: performance.now() for the completion gate (lines      *)
(* 142-143, 197-199) and Date.now() for the animation (lines 220, 224,     *)
(* 267, 272).  Only differences of clock readings are ever used, so each   *)
(* recorded timestamp is modelled by the time elapsed since it was taken:  *)
(*   sinceSpinStart   = performance.now() - spinStartedAtRef.current       *)
(*   task.el          = Date.now() - startTime            (kind "animate") *)
(*                    = Date.now() - twistBackStartTime   (kind "twist")   *)
(*   task.delay       = time left until a setTimeout is due                *)
(* Elapsed values saturate where the code can no longer tell them apart.   *)
(* The two clocks advance independently (action Tick).                     *)
(*                                                                         *)
(* Handles.  requestAnimationFrame/setTimeout return handles that the host *)
(* never reuses.  The code only stores handles in refs and passes them     *)
(* back to cancel/clear, so a new handle is modelled as the smallest       *)
(* number that is neither pending nor held by a ref.                       *)
(*                                                                         *)
(* Positions are exact rationals, stored as integers in units of           *)
(* 1/PosScale pixel.                                                       *)
(*                                                                         *)
(* Callbacks.  onSpinStart (line 145) and onSpinEnd (line 213) run caller  *)
(* code in the middle of spin() and completeOnce.  The handler is cut at   *)
(* the call: the variable calling is the stack of callbacks that have been *)
(* entered and have not returned.  While a callback runs, only what it can *)
(* do synchronously happens: it can call spin(), and it returns.           *)
(***************************************************************************)
EXTENDS Integers, Sequences, FiniteSets, TLC

\* ---------------------------------------------------------------- bounds
MaxReel == 1          \* reelItemCount ranges over 0..MaxReel
MaxSpins == 2         \* spin() is accepted at most MaxSpins times
RandDenom == 3        \* Math.random() for the jitter ranges over k/RandDenom
MaxRenders == 1       \* the parent re-renders with changed props at most so often
MaxLandReel == 6      \* reelItemCount of the landing-index runs is 0..MaxLandReel
MaxSize == 500        \* a resize entry reports a size of 0..MaxSize pixels

\* ------------------------------------------------------ program constants
STOP_OFFSET_PERCENT == 49      \* STOP_OFFSET_RATIO = 0.49, in hundredths
TwistFinishDelay == 1          \* setTimeout(..., 50), in units of 50 ms
TailOffset == 5                \* targetIndex = totalItemsCount - 5
itemSizeDefault == 80          \* Math.min(measuredSize || 80, 80), vertical
itemSizeHorizontal == 160      \* Math.min(measuredSize || 160, 160)
SuggestedMin == 40             \* Math.max(40, ...)
SuggestedFallback == 80        \* size ? ... : 80
SuggestedVerticalMax == 80     \* isVertical ? 80 : 160
SuggestedHorizontalMax == 160
SizeDivisor == 3               \* Math.floor(size / 3)
itemGap == 20                  \* itemGap = 20

Null == -1                     \* null of a ref
NoItem == "null"               \* forcedResult = null
Placeholder == "placeholder"   \* the item pickRandom returns for an empty pool
Undefined == "undefined"       \* a hole of a JavaScript array
ForcedItem == "f"

Pools == {<<>>, <<"a">>, <<"a", "b">>}
\* pools of three sizes that leave pickRandom one outcome each
RenderPools == {<<>>, <<"a">>, <<"b", "b">>}
ForcedResults == {NoItem, ForcedItem}
ForcedTargets == (-2)..MaxReel
Durations == {2}               \* the duration prop, in units of 50 ms
TwistDurations == {1}          \* the twistDuration prop, in units of 50 ms

JScale == 100 * RandDenom

Max(a, b) == IF a >= b THEN a ELSE b
Min(a, b) == IF a <= b THEN a ELSE b
SetMax(S) == CHOOSE x \in S : \A y \in S : y <= x

RECURSIVE Fact(_)
Fact(n) == IF n <= 1 THEN 1 ELSE n * Fact(n - 1)
Cube(x) == x * x * x
TScale == Cube(Fact(SetMax(Durations \cup TwistDurations)))
PosScale == JScale * TScale
ClockCap == SetMax(Durations) + SetMax(TwistDurations)

\* ------------------------------------------------------- pure functions
\* the size suggested without its lower bound
Suggested_NoLowerBound(size, vert) ==
  Min(IF size # 0 THEN size \div SizeDivisor ELSE SuggestedFallback,
      IF vert THEN SuggestedVerticalMax ELSE SuggestedHorizontalMax)

\* suggested, line 127, for a size in whole pixels
Suggested(size, vert) ==
  Max(SuggestedMin,
      Min(IF size # 0 THEN size \div SizeDivisor ELSE SuggestedFallback,
          IF vert THEN SuggestedVerticalMax ELSE SuggestedHorizontalMax))

\* itemSize, lines 73-74, when no itemSize prop is given
itemSize(vert, measured) ==
  LET fallback == IF vert THEN itemSizeDefault ELSE itemSizeHorizontal
  IN  Min(IF measured # 0 THEN measured ELSE fallback, fallback)

\* itemTotal, line 75
itemTotal(vert, measured) == itemSize(vert, measured) + itemGap * 2

\* Math.floor in the place of Math.round
MathRound_Floor(num, den) == num \div den

\* Math.round(num / den) for den > 0: floor(x + 0.5)
MathRound(num, den) == (2 * num + den) \div (2 * den)

\* pickRandom with an index that can run one past the end of the pool
PickRandom_PastEnd(pool) ==
  IF Len(pool) = 0 THEN {Placeholder}
  ELSE {pool[i] : i \in 2..Len(pool)} \cup {Undefined}

\* the values pickRandom can return
PickRandom(pool) ==
  IF Len(pool) = 0 THEN {Placeholder}
  ELSE {pool[i] : i \in 1..Len(pool)}

\* the arrays generateItems(count) can return
GenerateItems(count, pool) ==
  [1..Max(count, 0) -> PickRandom(pool)]

\* arr[i] = v on a JavaScript array (i is a 0-based integer index):
\* a negative index sets a property and leaves the elements alone,
\* an index past the end extends the array with holes.
ArrayAssign(arr, i, v) ==
  IF i < 0 THEN arr
  ELSE [j \in 1..Max(Len(arr), i + 1) |->
          IF j = i + 1 THEN v
          ELSE IF j <= Len(arr) THEN arr[j] ELSE Undefined]

\* the sequences an accepted spin() can build
ForcedSequences(forced, fti, ric, pool) ==
  {ArrayAssign(base, fti, forced) \o tail :
     base \in GenerateItems(fti + 1, pool),
     tail \in GenerateItems(ric - (fti + 1), pool)}

UpdatedItems(forced, fti, ric, pool) ==
  IF forced # NoItem THEN ForcedSequences(forced, fti, ric, pool)
  ELSE GenerateItems(ric, pool)

CenterIndex(len) == len \div 2

TargetIndex(isForced, fti, len) == IF isForced THEN fti ELSE len - TailOffset

\* targetTranslate in units of 1/JScale pixel; k/RandDenom is Math.random()
TargetTranslate(isForced, fti, len, k, total) ==
  LET itemsToMove == TargetIndex(isForced, fti, len) - CenterIndex(len)
      moveDistance == itemsToMove * total
      perfectTargetTranslate == 0 - moveDistance
      randomOffset == (2 * k - RandDenom) * total * STOP_OFFSET_PERCENT
  IN  perfectTargetTranslate * JScale + randomOffset

\* clampedClosestIndex
ClampedClosestIndex(isForced, fti, len, target, total) ==
  IF isForced
  THEN Max(0, Min(fti, len - 1))
  ELSE LET closestIndex ==
             MathRound(CenterIndex(len) * total * JScale - target,
                       total * JScale)
       IN  Max(0, Min(closestIndex, len - 1))

\* 1 - (1 - min(e/d, 1))^3 as a numerator over TScale
EaseOutCubic(e, d) ==
  LET p == Min(e, d)
  IN  (Cube(d) - Cube(d - p)) * (TScale \div Cube(d))

\* currentTranslateValue of animate, in units of 1/PosScale pixel
SpinPosition(target, e, d) == target * EaseOutCubic(e, d)

\* the position that centres index sel, in units of 1/JScale pixel
PerfectPosition(sel, len, total) ==
  0 - (sel - CenterIndex(len)) * total * JScale

\* twist-back that starts from startTranslate instead of targetTranslate
TwistPosition_FromStart(target, sel, len, e, d, total) ==
  (PerfectPosition(sel, len, total) - target) * EaseOutCubic(e, d)

\* twistBackCurrentPosition, in units of 1/PosScale pixel
TwistPosition(target, sel, len, e, d, total) ==
  target * TScale
    + (PerfectPosition(sel, len, total) - target) * EaseOutCubic(e, d)

\* ---------------------------------------------------------------- state
VARIABLES
  itemsPool, forcedResult, reelItemCount, forcedTargetIndex,
  duration, twistDuration, isVertical,          \* props
  isSpinningRef, spinTokenRef, completedTokenRef, sinceSpinStart,
  translateY, translateX, items,
  animationFrameRef, startTimeoutRef, finishTimeoutRef,
  twistFinishTimeoutRef, rafTickRef,
  pending,                                      \* frame requests and timers
  calling,                                      \* callbacks in progress
  measuredSize, lastMeasuredRef, lastResize,    \* sizing
  mounted, renders, lastCall, lastSpin, startCount, ends, lastEnd,
  tornToken                                     \* observation history

props == <<itemsPool, forcedResult, reelItemCount, forcedTargetIndex,
           duration, twistDuration, isVertical>>
refs == <<isSpinningRef, spinTokenRef, completedTokenRef, sinceSpinStart,
          animationFrameRef, startTimeoutRef, finishTimeoutRef,
          twistFinishTimeoutRef, rafTickRef>>
display == <<translateY, translateX, items>>
history == <<mounted, renders, lastCall, lastSpin, startCount, ends, lastEnd,
             tornToken>>
\* the history a re-render leaves alone
steady == <<mounted, lastCall, lastSpin, startCount, ends, lastEnd, tornToken>>
\* measuredSize, lastMeasuredRef and the latest entry the ResizeObserver
\* reported with the orientation it was reported under
sizing == <<measuredSize, lastMeasuredRef, lastResize>>
vars == <<props, refs, display, pending, calling, sizing, history>>

\* ------------------------------------------------------------- handles
\* the refs without the one that holds the frame request
HandleRefs_NoFrame ==
  {startTimeoutRef, finishTimeoutRef, twistFinishTimeoutRef}

\* the refs that hold the handles of deferred work, lines 62-65
HandleRefs ==
  {animationFrameRef, startTimeoutRef, finishTimeoutRef, twistFinishTimeoutRef}

PendingIds(tasks) == {t.id : t \in tasks}

\* a handle the host has not handed out to anything still remembered
NewHandle(tasks, held) ==
  CHOOSE n \in 1..(Cardinality(tasks) + Cardinality(held) + 1) :
    /\ n \notin PendingIds(tasks)
    /\ n \notin held
    /\ \A m \in 1..(n - 1) : m \in PendingIds(tasks) \/ m \in held

\* cancelAnimationFrame(h) / clearTimeout(h)
Cancel(tasks, hs) == {t \in tasks : t.id \notin hs}

Task(id, kind, env, delay, el, sel) ==
  [id |-> id, kind |-> kind, env |-> env, delay |-> delay, el |-> el,
   sel |-> sel]

\* ------------------------------------------------------------------ Init
\* the state after the first render and its mount effects, for props drawn
\* from the given sets
Mounted(pools, results, reelCounts, targets) ==
  /\ itemsPool \in pools
  /\ forcedResult \in results
  /\ reelItemCount \in reelCounts
  /\ forcedTargetIndex \in targets
  \* forcedTargetIndex is read by the forced branches only (lines 168-172,
  \* 184, 246-250): one value stands for all of them in an unforced mount
  /\ forcedResult = NoItem => forcedTargetIndex = SetMax(targets)
  /\ duration \in Durations
  /\ twistDuration \in TwistDurations
  /\ isVertical = TRUE
  /\ isSpinningRef = FALSE
  /\ spinTokenRef = 0
  /\ completedTokenRef = Null
  /\ sinceSpinStart = ClockCap
  /\ translateY = 0
  /\ translateX = 0
  /\ items \in (IF Len(itemsPool) > 0
                THEN GenerateItems(reelItemCount, itemsPool) ELSE {<<>>})
  /\ animationFrameRef = Null
  /\ startTimeoutRef = Null
  /\ finishTimeoutRef = Null
  /\ twistFinishTimeoutRef = Null
  /\ rafTickRef = 0
  /\ pending = {}
  /\ calling = <<>>
  /\ measuredSize = 0
  /\ lastMeasuredRef = 0
  /\ lastResize = <<>>
  /\ mounted = TRUE
  /\ renders = 0
  /\ lastCall = <<>>
  /\ lastSpin = <<>>
  /\ startCount = 0
  /\ ends = <<>>
  /\ lastEnd = <<>>
  /\ tornToken = Null

\* ------------------------------------------------- renders with new props
\* useEffect of lines 110-118, run after a render that changed one of its
\* dependencies itemsPool.length, reelItemCount, isVertical
InitialItemsEffect(pool, ric) ==
  IF Len(pool) > 0
  THEN /\ items' \in GenerateItems(ric, pool)
       /\ translateX' = 0
       /\ translateY' = 0
  ELSE UNCHANGED display

SetItemsPool(pool) ==
  /\ mounted /\ renders < MaxRenders /\ calling = <<>>
  /\ renders' = renders + 1
  /\ pool # itemsPool
  /\ itemsPool' = pool
  /\ IF Len(pool) # Len(itemsPool)
     THEN InitialItemsEffect(pool, reelItemCount)
     ELSE UNCHANGED display
  /\ UNCHANGED <<forcedResult, reelItemCount, forcedTargetIndex, duration,
                 twistDuration, isVertical, refs, pending, calling, sizing,
                 steady>>

SetReelItemCount(ric) ==
  /\ mounted /\ renders < MaxRenders /\ calling = <<>>
  /\ renders' = renders + 1
  /\ ric # reelItemCount
  /\ reelItemCount' = ric
  /\ InitialItemsEffect(itemsPool, ric)
  /\ UNCHANGED <<itemsPool, forcedResult, forcedTargetIndex, duration,
                 twistDuration, isVertical, refs, pending, calling, sizing,
                 steady>>

SetOrientation(vert) ==
  /\ mounted /\ renders < MaxRenders /\ calling = <<>>
  /\ renders' = renders + 1
  /\ vert # isVertical
  /\ isVertical' = vert
  /\ InitialItemsEffect(itemsPool, reelItemCount)
  /\ UNCHANGED <<itemsPool, forcedResult, reelItemCount, forcedTargetIndex,
                 duration, twistDuration, refs, pending, calling, sizing,
                 steady>>

\* the ResizeObserver callback of lines 124-132, for an entry whose
\* contentRect has the given size along the reel's axis
Resize(size) ==
  /\ mounted /\ calling = <<>>
  /\ LET suggested == Suggested(size, isVertical)
     IN  IF suggested # lastMeasuredRef
         THEN lastMeasuredRef' = suggested /\ measuredSize' = suggested
         ELSE UNCHANGED <<measuredSize, lastMeasuredRef>>
  /\ lastResize' = <<[size |-> size, vert |-> isVertical]>>
  /\ UNCHANGED <<props, refs, display, pending, calling, history>>

\* ------------------------------------------------------------------ spin
\* the guard of line 138 without its isSpinningRef test
SpinRejected_IgnoresLive == Len(itemsPool) = 0

\* the guard of line 138 without its empty-pool test
SpinRejected_IgnoresEmpty == isSpinningRef

\* line 138
SpinRejected == isSpinningRef \/ Len(itemsPool) = 0

\* a token that is read but not incremented
MintToken_Same(token) == token

\* line 159: ++spinTokenRef.current
MintToken(token) == token + 1

\* what the closures created by one spin() call capture
SpinEnv(token, updatedItems, k) ==
  LET isForced == forcedResult # NoItem
      len == Len(updatedItems)
  IN  [tok |-> token,
       seq |-> updatedItems,
       pool |-> itemsPool,
       ric |-> reelItemCount,
       result |-> forcedResult,
       forced |-> isForced,
       fti |-> forcedTargetIndex,
       total |-> itemTotal(isVertical, measuredSize),
       target |-> TargetTranslate(isForced, forcedTargetIndex, len, k,
                                  itemTotal(isVertical, measuredSize)),
       minMs |-> duration + twistDuration,
       dur |-> duration,
       twist |-> twistDuration,
       vert |-> isVertical]

\* the callback that was entered last and has not returned
Calling == IF calling = <<>> THEN "none" ELSE calling[Len(calling)]

\* a call of spin() as the caller sees it: the state it was made in, the
\* callback it was made from, the accepted spin it found live or started,
\* and whether onSpinStart was called back
CallRecord == [live |-> isSpinningRef, empty |-> Len(itemsPool) = 0,
               forced |-> forcedResult # NoItem, mounted |-> mounted,
               inside |-> Calling,
               tok |-> startCount', started |-> startCount' # startCount]

Returned == SubSeq(calling, 1, Len(calling) - 1)

\* spin() up to its call of onSpinStart, lines 137-145
Spin ==
  /\ SpinRejected \/ startCount < MaxSpins
  /\ IF SpinRejected
     THEN UNCHANGED <<props, refs, display, pending, calling, sizing,
                      mounted, renders, lastSpin, startCount, ends, lastEnd,
                      tornToken>>
     ELSE /\ isSpinningRef' = TRUE
          /\ completedTokenRef' = Null
          /\ sinceSpinStart' = 0
          /\ startCount' = startCount + 1
          /\ calling' = Append(calling, "onSpinStart")
          /\ ends' = Append(ends, 0)
          /\ lastEnd' = <<>>
          /\ UNCHANGED <<props, spinTokenRef, animationFrameRef,
                         startTimeoutRef, finishTimeoutRef,
                         twistFinishTimeoutRef, rafTickRef, display, pending,
                         sizing, mounted, renders, lastSpin, tornToken>>
  /\ lastCall' = <<CallRecord>>

\* spin() after onSpinStart has returned, lines 147-309
SpinAfterStart ==
  /\ Calling = "onSpinStart"
  /\ calling' = Returned
  /\ \E updatedItems \in UpdatedItems(forcedResult, forcedTargetIndex,
                                      reelItemCount, itemsPool),
        k \in 0..(RandDenom - 1) :
       LET spinToken == MintToken(spinTokenRef)
           kept == Cancel(pending, HandleRefs)
           h == NewHandle(kept, {})
           env == SpinEnv(spinToken, updatedItems, k)
       IN  /\ animationFrameRef' = Null
           /\ rafTickRef' = 0
           /\ finishTimeoutRef' = Null
           /\ twistFinishTimeoutRef' = Null
           /\ spinTokenRef' = spinToken
           /\ IF isVertical
              THEN translateY' = 0 /\ UNCHANGED translateX
              ELSE translateX' = 0 /\ UNCHANGED translateY
           /\ items' = updatedItems
           /\ startTimeoutRef' = h
           /\ pending' = kept \cup {Task(h, "start", env, 0, 0, 0)}
           /\ lastSpin' = <<env>>
  /\ UNCHANGED <<props, isSpinningRef, completedTokenRef, sinceSpinStart,
                 sizing, mounted, renders, lastCall, startCount, ends,
                 lastEnd, tornToken>>

\* ------------------------------------------------------- deferred work
Held == HandleRefs \ {Null}

SetTranslate(vert, value) ==
  IF vert
  THEN translateY' = value /\ UNCHANGED translateX
  ELSE translateX' = value /\ UNCHANGED translateY

\* the setTimeout(..., 0) callback of lines 219-309
StartTimeout(t) ==
  /\ calling = <<>>
  /\ t \in pending /\ t.kind = "start" /\ t.delay = 0
  /\ LET rest == pending \ {t}
         h == NewHandle(rest, Held)
     IN  /\ animationFrameRef' = h
         /\ pending' = rest \cup {Task(h, "animate", t.env, 0, 0, 0)}
  /\ UNCHANGED <<props, isSpinningRef, spinTokenRef, completedTokenRef,
                 sinceSpinStart, startTimeoutRef, finishTimeoutRef,
                 twistFinishTimeoutRef, rafTickRef, display, calling,
                 sizing, history>>

\* a frame test that takes every frame for the last one of its phase
ProgressDone_Always(e, d) == TRUE

\* a frame test that asks for more than the clamped progress can reach
ProgressDone_Strict(e, d) == Min(e, d) > d

\* lines 242 / 292, negated: progress = min(elapsed / duration, 1) reached 1
ProgressDone(e, d) == e >= d

\* line 223 / 271 / 195: the captured token is still the current one
TokenIsCurrent(env) == env.tok = spinTokenRef

\* animate, lines 222-306
Animate(t) ==
  /\ calling = <<>>
  /\ t \in pending /\ t.kind = "animate"
  /\ LET env == t.env
         rest == pending \ {t}
         h == NewHandle(rest, Held)
         tick == (rafTickRef + 1) % 2
         len == Len(env.seq)
         currentTranslateValue == SpinPosition(env.target, t.el, env.dur)
     IN  IF ~TokenIsCurrent(env)
         THEN /\ pending' = rest
              /\ UNCHANGED <<animationFrameRef, rafTickRef, display>>
         ELSE /\ rafTickRef' = tick
              /\ IF tick = 0
                 THEN SetTranslate(env.vert, currentTranslateValue)
                 ELSE UNCHANGED <<translateY, translateX>>
              /\ UNCHANGED items
              /\ animationFrameRef' = h
              /\ IF ~ProgressDone(t.el, env.dur)
                 THEN pending' = rest \cup
                        {Task(h, "animate", env, 0, t.el, 0)}
                 ELSE pending' = rest \cup
                        {Task(h, "twist", env, 0, 0,
                              ClampedClosestIndex(env.forced, env.fti, len,
                                                  env.target, env.total))}
  /\ UNCHANGED <<props, isSpinningRef, spinTokenRef, completedTokenRef,
                 sinceSpinStart, startTimeoutRef, finishTimeoutRef,
                 twistFinishTimeoutRef, calling, sizing,
                 history>>

\* animateTwistBack, lines 270-302
AnimateTwistBack(t) ==
  /\ calling = <<>>
  /\ t \in pending /\ t.kind = "twist"
  /\ LET env == t.env
         rest == pending \ {t}
         h == NewHandle(rest, Held)
         tick == (rafTickRef + 1) % 2
         twistBackCurrentPosition ==
           TwistPosition(env.target, t.sel, Len(env.seq), t.el, env.twist,
                         env.total)
     IN  IF ~TokenIsCurrent(env)
         THEN /\ pending' = rest
              /\ UNCHANGED <<animationFrameRef, twistFinishTimeoutRef,
                             rafTickRef, display>>
         ELSE /\ rafTickRef' = tick
              /\ UNCHANGED items
              /\ IF ~ProgressDone(t.el, env.twist)
                 THEN /\ IF tick = 0
                         THEN SetTranslate(env.vert, twistBackCurrentPosition)
                         ELSE UNCHANGED <<translateY, translateX>>
                      /\ animationFrameRef' = h
                      /\ pending' = rest \cup
                           {Task(h, "twist", env, 0, t.el, t.sel)}
                      /\ UNCHANGED twistFinishTimeoutRef
                 ELSE /\ SetTranslate(env.vert, twistBackCurrentPosition)
                      /\ twistFinishTimeoutRef' = h
                      /\ pending' = rest \cup
                           {Task(h, "twistFinish", env, TwistFinishDelay, 0,
                                 t.sel)}
                      /\ UNCHANGED animationFrameRef
  /\ UNCHANGED <<props, isSpinningRef, spinTokenRef, completedTokenRef,
                 sinceSpinStart, startTimeoutRef, finishTimeoutRef, calling,
                 sizing, history>>

\* completeOnce without the minimum-duration gate
TooEarly_Never(env) == FALSE

\* line 200: the completion attempt comes before the minimum duration
TooEarly(env) == sinceSpinStart < env.minMs

\* the range test of lines 209-212 with a strict lower bound
HasItem_SkipsFirst(env, selectedIndex) ==
  selectedIndex > 0 /\ selectedIndex < Len(env.seq)

\* lines 209-212
HasItem(env, selectedIndex) ==
  selectedIndex >= 0 /\ selectedIndex < Len(env.seq)

EndRecord(env, selectedIndex) ==
  [tok |-> env.tok, item |-> env.seq[selectedIndex + 1],
   elapsed |-> sinceSpinStart, minMs |-> env.minMs,
   live |-> isSpinningRef, completed |-> completedTokenRef',
   mounted |-> mounted]

\* completeOnce(selectedIndex) up to its call of onSpinEnd, or to its end
\* when it makes none, lines 194-217, called from the timer t
CompleteOnce(t) ==
  LET env == t.env
      rest == pending \ {t}
      h == NewHandle(rest, Held)
  IN  IF ~TokenIsCurrent(env) \/ completedTokenRef = env.tok
      THEN /\ pending' = rest
           /\ UNCHANGED <<isSpinningRef, completedTokenRef, finishTimeoutRef,
                          calling, ends, lastEnd>>
      ELSE IF TooEarly(env)
      THEN /\ finishTimeoutRef' = h
           /\ pending' = rest \cup
                {Task(h, "finish", env,
                      Max(0, env.minMs - sinceSpinStart), 0, t.sel)}
           /\ UNCHANGED <<isSpinningRef, completedTokenRef, calling, ends,
                          lastEnd>>
      ELSE /\ completedTokenRef' = env.tok
           /\ IF HasItem(env, t.sel)
              THEN /\ ends' = [ends EXCEPT ![env.tok] = @ + 1]
                   /\ lastEnd' = <<EndRecord(env, t.sel)>>
                   /\ calling' = Append(calling, "onSpinEnd")
                   /\ UNCHANGED isSpinningRef
              ELSE /\ isSpinningRef' = FALSE
                   /\ UNCHANGED <<calling, ends, lastEnd>>
           /\ pending' = rest
           /\ UNCHANGED finishTimeoutRef

\* completeOnce after onSpinEnd has returned, lines 215-216
CompleteOnceAfterEnd ==
  /\ Calling = "onSpinEnd"
  /\ calling' = Returned
  /\ isSpinningRef' = FALSE
  /\ UNCHANGED <<props, spinTokenRef, completedTokenRef, sinceSpinStart,
                 animationFrameRef, startTimeoutRef, finishTimeoutRef,
                 twistFinishTimeoutRef, rafTickRef, display, pending,
                 sizing, history>>

\* the setTimeout(..., 50) callback of lines 298-300
TwistFinishTimeout(t) ==
  /\ calling = <<>>
  /\ t \in pending /\ t.kind = "twistFinish" /\ t.delay = 0
  /\ CompleteOnce(t)
  /\ UNCHANGED <<props, spinTokenRef, sinceSpinStart, animationFrameRef,
                 startTimeoutRef, twistFinishTimeoutRef, rafTickRef, display,
                 sizing, mounted, renders, lastCall, lastSpin, startCount,
                 tornToken>>

\* the setTimeout(..., remaining) callback of lines 202-205
FinishTimeout(t) ==
  /\ calling = <<>>
  /\ t \in pending /\ t.kind = "finish" /\ t.delay = 0
  /\ CompleteOnce(t)
  /\ UNCHANGED <<props, spinTokenRef, sinceSpinStart, animationFrameRef,
                 startTimeoutRef, twistFinishTimeoutRef, rafTickRef, display,
                 sizing, mounted, renders, lastCall, lastSpin, startCount,
                 tornToken>>

\* a cleanup that leaves the re-arm timer of line 202 out of its list
TeardownHandles_NoFinish ==
  {animationFrameRef, startTimeoutRef, twistFinishTimeoutRef}

\* the handles the cleanup cancels, lines 329-335
TeardownHandles == HandleRefs

\* the cleanup of the mount effect, lines 327-339
Teardown ==
  /\ mounted /\ calling = <<>>
  /\ mounted' = FALSE
  /\ tornToken' = IF isSpinningRef THEN spinTokenRef ELSE Null
  /\ pending' = Cancel(pending, TeardownHandles)
  /\ completedTokenRef' = Null
  /\ isSpinningRef' = FALSE
  /\ UNCHANGED <<props, spinTokenRef, sinceSpinStart, animationFrameRef,
                 startTimeoutRef, finishTimeoutRef, twistFinishTimeoutRef,
                 rafTickRef, display, calling, sizing, renders, lastCall,
                 lastSpin, startCount, ends, lastEnd>>

\* ---------------------------------------------------------------- clocks
TaskAfter(t, dp, dd) ==
  [t EXCEPT !.delay = Max(0, @ - dp),
            !.el = IF t.kind = "animate" THEN Min(@ + dd, t.env.dur)
                   ELSE IF t.kind = "twist" THEN Min(@ + dd, t.env.twist)
                   ELSE @]

\* performance.now() advances by dp and Date.now() by dd
Tick(dp, dd) ==
  /\ calling = <<>>
  /\ dp + dd > 0
  /\ sinceSpinStart' = Min(sinceSpinStart + dp, ClockCap)
  /\ pending' = {TaskAfter(t, dp, dd) : t \in pending}
  /\ <<sinceSpinStart', pending'>> # <<sinceSpinStart, pending>>
  /\ UNCHANGED <<props, isSpinningRef, spinTokenRef, completedTokenRef,
                 animationFrameRef, startTimeoutRef, finishTimeoutRef,
                 twistFinishTimeoutRef, rafTickRef, display, calling,
                 sizing, history>>

\* ------------------------------------------------------------------ Next
\* the engine under props that stay as they were at mount, for every
\* configuration of reelItemCount and forcedTargetIndex
Next ==
  \/ Spin
  \/ SpinAfterStart
  \/ CompleteOnceAfterEnd
  \/ \E t \in pending : StartTimeout(t)
  \/ \E t \in pending : Animate(t)
  \/ \E t \in pending : AnimateTwistBack(t)
  \/ \E t \in pending : TwistFinishTimeout(t)
  \/ \E t \in pending : FinishTimeout(t)
  \/ Teardown
  \/ \E dp \in 0..1, dd \in 0..1 : Tick(dp, dd)

Init == Mounted(Pools, ForcedResults, 0..MaxReel, ForcedTargets)
Spec == Init /\ [][Next]_vars

\* the engine under a parent that re-renders it with a changed pool,
\* reelItemCount or orientation (the dependencies of the effect of lines
\* 110-118), for unforced spins
NextRender ==
  \/ Spin
  \/ SpinAfterStart
  \/ CompleteOnceAfterEnd
  \/ \E pool \in RenderPools : SetItemsPool(pool)
  \/ \E ric \in 0..MaxReel : SetReelItemCount(ric)
  \/ \E vert \in BOOLEAN : SetOrientation(vert)
  \/ \E t \in pending : StartTimeout(t)
  \/ \E t \in pending : Animate(t)
  \/ \E t \in pending : AnimateTwistBack(t)
  \/ \E t \in pending : TwistFinishTimeout(t)
  \/ \E t \in pending : FinishTimeout(t)
  \/ Teardown
  \/ \E dp \in 0..1, dd \in 0..1 : Tick(dp, dd)

InitRender == Mounted(RenderPools, {NoItem}, {MaxReel}, {0})
SpecRender == InitRender /\ [][NextRender]_vars

\* the engine when no teardown occurs and every requested frame and timer
\* eventually fires: the host runs a frame request at its next frame and a
\* timer once it is due, and both clocks keep advancing
NextLive ==
  \/ Spin
  \/ SpinAfterStart
  \/ CompleteOnceAfterEnd
  \/ \E t \in pending : StartTimeout(t)
  \/ \E t \in pending : Animate(t)
  \/ \E t \in pending : AnimateTwistBack(t)
  \/ \E t \in pending : TwistFinishTimeout(t)
  \/ \E t \in pending : FinishTimeout(t)
  \/ \E dp \in 0..1, dd \in 0..1 : Tick(dp, dd)

Fairness ==
  /\ WF_vars(SpinAfterStart)
  /\ WF_vars(CompleteOnceAfterEnd)
  /\ WF_vars(\E t \in pending : StartTimeout(t))
  /\ WF_vars(\E t \in pending : Animate(t))
  /\ WF_vars(\E t \in pending : AnimateTwistBack(t))
  /\ WF_vars(\E t \in pending : TwistFinishTimeout(t))
  /\ WF_vars(\E t \in pending : FinishTimeout(t))
  /\ WF_vars(Tick(1, 1))

\* every configuration of reelItemCount and forcedTargetIndex, forced and
\* unforced, over a pool that lets spin() be accepted
InitLive == Mounted({<<"a">>}, ForcedResults, 0..MaxReel, ForcedTargets)
SpecLive == InitLive /\ [][NextLive]_vars /\ Fairness

\* the engine on unforced spins over reels long enough for the target index
\* totalItemsCount - 5 to lie inside the sequence
InitLanding == Mounted({<<"a">>}, {NoItem}, 0..MaxLandReel, {0})
SpecLanding == InitLanding /\ [][Next]_vars

\* the sizing of an idle engine: resize entries of every size, in both
\* orientations
NextSizing ==
  \/ \E size \in 0..MaxSize : Resize(size)
  \/ \E vert \in BOOLEAN : SetOrientation(vert)

InitSizing == Mounted({<<"a">>}, {NoItem}, {MaxReel}, {0})
SpecSizing == InitSizing /\ [][NextSizing]_vars

\* ============================================================ properties
Range(seq) == {seq[i] : i \in 1..Len(seq)}

\* the current spin ran completeOnce to its end (line 208)
CurrentCompleted == spinTokenRef >= 1 /\ completedTokenRef = spinTokenRef

\* the latest onSpinEnd call was made for the latest accepted spin
EndOfLastSpin ==
  lastEnd # <<>> /\ lastSpin # <<>> /\ lastEnd[1].tok = lastSpin[1].tok

\* C1 as stated: every accepted spin that completes delivers onSpinEnd
\* exactly once, never twice and never zero times, in every configuration.
C1_ExactlyOnceAnyConfig ==
  /\ \A tok \in 1..Len(ends) : ends[tok] <= 1
  /\ CurrentCompleted => ends[spinTokenRef] = 1

\* C1 amended: no spin delivers onSpinEnd twice, and a spin that completes
\* has delivered it exactly once when its generated sequence is non-empty and
\* not at all when the sequence is empty.
C1_ExactlyOncePerNonEmptySpin ==
  /\ \A tok \in 1..Len(ends) : ends[tok] <= 1
  /\ CurrentCompleted =>
       ends[spinTokenRef] = (IF Len(lastSpin[1].seq) > 0 THEN 1 ELSE 0)

\* two spins in a row, each delivered once
C1_Witness ==
  /\ spinTokenRef = 2 /\ CurrentCompleted
  /\ ends[1] = 1 /\ ends[2] = 1

\* C2: every onSpinEnd call is made when at least duration + twistDuration
\* has passed on the performance.now() clock since the spin started.
C2_NotBeforeMinimum ==
  lastEnd # <<>> => lastEnd[1].elapsed >= lastEnd[1].minMs

\* a spin whose first completion attempt was re-armed has delivered
C2_Witness ==
  /\ CurrentCompleted /\ EndOfLastSpin
  /\ finishTimeoutRef # Null

\* C3: a spin() call made while a spin is live changes nothing: no callback,
\* no token, no sequence, no Position, no start time, no pending work.
C3_LiveSpinIsNoOp ==
  [][(isSpinningRef /\ lastCall' # lastCall) =>
       UNCHANGED <<props, refs, display, pending, lastSpin, startCount,
                   ends, lastEnd>>]_vars

\* spin() was called while the work of a live spin was pending
C3_Witness ==
  /\ lastCall # <<>> /\ lastCall[1].live /\ ~lastCall[1].started
  /\ isSpinningRef /\ pending # {}

\* C4 as stated: an attempt that was live when spin() was called again never
\* delivers onSpinEnd.
C4_SupersededNeverDelivers ==
  (lastCall # <<>> /\ lastCall[1].live) => ends[lastCall[1].tok] = 0

\* C4 amended: a spin() call made while a spin is live is ignored; it gets
\* no onSpinStart/onSpinEnd pair of its own and mints no token, and the
\* earlier spin goes on to complete and deliver its own onSpinEnd.
C4_LiveCallIgnored ==
  (lastCall # <<>> /\ lastCall[1].live) =>
    /\ ~lastCall[1].started
    /\ startCount = lastCall[1].tok /\ spinTokenRef <= lastCall[1].tok
    /\ CurrentCompleted =>
         ends[spinTokenRef] = (IF Len(lastSpin[1].seq) > 0 THEN 1 ELSE 0)

\* the spin that was live when spin() was called again has delivered
C4_Witness ==
  lastCall # <<>> /\ lastCall[1].live /\ ends[lastCall[1].tok] = 1

\* C5: a spin() call made with an empty pool changes nothing, with or
\* without a forced result.
C5_EmptyPoolIsNoOp ==
  [][(Len(itemsPool) = 0 /\ lastCall' # lastCall) =>
       UNCHANGED <<props, refs, display, pending, lastSpin, startCount,
                   ends, lastEnd>>]_vars

\* spin() was called on an idle engine with an empty pool and a forced result
C5_Witness ==
  /\ lastCall # <<>> /\ lastCall[1].empty /\ ~lastCall[1].live
  /\ lastCall[1].forced /\ ~lastCall[1].started

\* C6 as stated: a forced spin with reelItemCount >= forcedTargetIndex + 1
\* holds forcedResult at index forcedTargetIndex and delivers forcedResult.
C6_ForcedResultDelivered ==
  (lastSpin # <<>> /\ lastSpin[1].result # NoItem
     /\ lastSpin[1].ric >= lastSpin[1].fti + 1) =>
    /\ lastSpin[1].fti + 1 \in 1..Len(lastSpin[1].seq)
    /\ lastSpin[1].seq[lastSpin[1].fti + 1] = lastSpin[1].result
    /\ EndOfLastSpin => lastEnd[1].item = lastSpin[1].result

\* C7: an unforced spin delivers a member of the pool spin() was called with.
C7_UnforcedFromPool ==
  (EndOfLastSpin /\ lastSpin[1].result = NoItem) =>
    lastEnd[1].item \in Range(lastSpin[1].pool)

\* an unforced spin delivered an item the pool has lost in the meantime
C7_Witness ==
  /\ EndOfLastSpin /\ lastSpin[1].result = NoItem
  /\ lastEnd[1].item \notin Range(itemsPool)

\* C8: after a teardown that found a spin live, nothing of that spin is
\* pending and its onSpinEnd is never made.
C8_TeardownCancels ==
  tornToken # Null =>
    /\ ends[tornToken] = 0
    /\ \A t \in pending : t.env.tok # tornToken

\* torn down while the re-arm timer of the minimum-duration gate was pending
C8_Witness ==
  /\ ~mounted /\ tornToken # Null /\ spinTokenRef = tornToken
  /\ finishTimeoutRef # Null

\* C9 as stated: a forced spin whose forcedTargetIndex is outside
\* [0, reelItemCount) places forcedResult at the clamped index and delivers it.
C9_ForcedIndexClamped ==
  (lastSpin # <<>> /\ lastSpin[1].result # NoItem /\ lastSpin[1].ric >= 1
     /\ (lastSpin[1].fti < 0 \/ lastSpin[1].fti >= lastSpin[1].ric)) =>
    LET clamped == Max(0, Min(lastSpin[1].fti, lastSpin[1].ric - 1))
    IN  /\ clamped + 1 \in 1..Len(lastSpin[1].seq)
        /\ lastSpin[1].seq[clamped + 1] = lastSpin[1].result
        /\ EndOfLastSpin => lastEnd[1].item = lastSpin[1].result

\* C10 as stated: the sequence an accepted spin generates has length
\* reelItemCount.
C10_SequenceLength ==
  lastSpin # <<>> => Len(lastSpin[1].seq) = lastSpin[1].ric

\* ------------------------------------------------------------- phases
\* the deferred work of the current token
CurrentTasks == {t \in pending : TokenIsCurrent(t.env)}

\* the phase a piece of deferred work belongs to: the start timer and the
\* animate frames are Spinning (1), the animateTwistBack frames TwistBack (2),
\* the grace timer and the re-arm timer Settled (3)
PhaseOfKind(kind) ==
  IF kind \in {"start", "animate"} THEN 1
  ELSE IF kind = "twist" THEN 2
  ELSE 3

\* the phases the current token is in; Idle is the empty set
Phases == {PhaseOfKind(t.kind) : t \in CurrentTasks}

\* C11: within one spin the phases come in the order Idle, Spinning,
\* TwistBack, Settled, Idle.  A live spin is in exactly one phase (outside its
\* two callbacks, where nothing is pending) and an idle engine in none; while the token stays the same and no teardown happens a
\* step keeps the phase or moves it to the next one, to TwistBack only from an
\* animate frame at progress 1, to Settled only from an animateTwistBack frame
\* at progress 1; the completion flag is set only from Settled, and Settled is
\* never entered again once left.
C11_PhaseOrder ==
  [][(spinTokenRef' = spinTokenRef /\ mounted' = mounted) =>
       /\ Cardinality(Phases) =
            (IF isSpinningRef /\ calling = <<>> THEN 1 ELSE 0)
       /\ Cardinality(Phases') =
            (IF isSpinningRef' /\ calling' = <<>> THEN 1 ELSE 0)
       /\ \A p \in Phases : Phases' \subseteq {p, p + 1}
       /\ Phases = {} => Phases' = {}
       /\ (Phases # {} /\ Phases' = {}) => Phases = {3}
       /\ (Phases = {1} /\ Phases' = {2}) =>
            \E t \in CurrentTasks :
              t.kind = "animate" /\ t.el >= t.env.dur
       /\ (Phases = {2} /\ Phases' = {3}) =>
            \E t \in CurrentTasks :
              t.kind = "twist" /\ t.el >= t.env.twist
       /\ (completedTokenRef' # completedTokenRef
             /\ completedTokenRef' = spinTokenRef) =>
            (Phases = {3} /\ Phases' = {})]_vars

\* the second spin has gone through Spinning and TwistBack and is Settled,
\* waiting for the timer the minimum-duration gate re-armed
C11_Witness ==
  /\ spinTokenRef = 2 /\ isSpinningRef
  /\ \E t \in CurrentTasks : t.kind = "finish"

C13_EventuallyIdle == isSpinningRef ~> ~isSpinningRef

\* a spin whose completion was deferred by the minimum-duration gate and
\* whose resolved index held no item has returned to Idle
C13_Witness ==
  /\ CurrentCompleted /\ ~isSpinningRef /\ mounted
  /\ finishTimeoutRef # Null /\ ends[spinTokenRef] = 0

\* the accepted spin() calls that have not yet come back from onSpinStart
Starting == Cardinality({i \in 1..Len(calling) : calling[i] = "onSpinStart"})

\* C14: the spin token only ever grows, by exactly one in each accepted
\* spin() (in the part of spin() that follows onSpinStart), and no other
\* step (a rejected spin(), a frame, a timer, a completion, a teardown, a
\* clock tick) changes it: the token is the number of accepted spins.
C14_TokenMonotonic ==
  [][/\ spinTokenRef + Starting = startCount
     /\ spinTokenRef' + Starting' = startCount'
     /\ spinTokenRef' \in {spinTokenRef, spinTokenRef + 1}
     /\ spinTokenRef' # spinTokenRef =>
          (Calling = "onSpinStart" /\ calling' = Returned)]_vars

\* two accepted spins, a teardown and a rejected call later the token is 2
C14_Witness ==
  /\ spinTokenRef = 2 /\ startCount = 2 /\ ~mounted
  /\ lastCall # <<>> /\ lastCall[1].live /\ ~lastCall[1].started

\* the deferred work that carries a resolved clampedClosestIndex
Resolved == {t \in pending : t.kind \in {"twist", "twistFinish", "finish"}}

\* C15: the index an unforced spin resolves is its target index
\* totalItemsCount - 5 clamped to [0, length - 1], whatever the jitter.
C15_JitterKeepsIndex ==
  \A t \in Resolved :
    ~t.env.forced =>
      t.sel = Max(0, Min(Len(t.env.seq) - TailOffset, Len(t.env.seq) - 1))

\* an unforced spin over the longest reel stopped right of the perfect
\* position (positive jitter) and resolved its unclamped target index
C15_Witness ==
  \E t \in Resolved :
    /\ ~t.env.forced /\ Len(t.env.seq) = MaxLandReel
    /\ t.env.target > PerfectPosition(Len(t.env.seq) - TailOffset,
                                      Len(t.env.seq), t.env.total)
    /\ t.sel = Len(t.env.seq) - TailOffset /\ t.sel >= 1

\* the Position of the axis a spin animates
PositionOf(env) == IF env.vert THEN translateY ELSE translateX

\* C16: once TwistBack has completed (the spin is Settled), the published
\* Position is exactly the offset that centres the resolved index,
\* (floor(length / 2) - closestIndex) * itemTotal.
C16_SettledAtPerfect ==
  \A t \in pending :
    t.kind \in {"twistFinish", "finish"} =>
      PositionOf(t.env) =
        (CenterIndex(Len(t.env.seq)) - t.sel) * t.env.total * PosScale

\* TwistBack completed on an odd frame count, which the throttle of lines
\* 287-290 skips, after a jittered stop away from a non-zero perfect position
C16_Witness ==
  \E t \in pending :
    /\ t.kind = "twistFinish" /\ rafTickRef = 1
    /\ t.env.target # PerfectPosition(t.sel, Len(t.env.seq), t.env.total)
    /\ PositionOf(t.env) # 0
    /\ PositionOf(t.env) =
         PerfectPosition(t.sel, Len(t.env.seq), t.env.total) * TScale

\* C17 as stated: Position changes only in the steps of the live spin's
\* motion (an animate or animateTwistBack frame of the current token) and in
\* the reset to 0 at the start of an accepted spin; a re-render with a changed
\* pool size, reelItemCount or orientation leaves it alone.
C17_OnlyMotionMovesPosition ==
  [][<<translateY, translateX>>' # <<translateY, translateX>> =>
       /\ renders' = renders
       /\ isSpinningRef'
       /\ \/ /\ startCount' # startCount
             /\ (IF isVertical THEN translateY' ELSE translateX') = 0
          \/ \E t \in CurrentTasks :
               t.kind \in {"animate", "twist"} /\ t \notin pending']_vars

\* C18: onSpinEnd runs with the spin still marked live and its completion
\* flag set, and onSpinStart with the spin marked live; the live flag of a
\* completing spin is cleared only once the completion flag is set and no
\* callback is left running; a spin() call made from inside either callback
\* changes nothing, and no spin delivers twice.
C18_CallbackSeesLive ==
  [][/\ Calling = "onSpinEnd" =>
          /\ isSpinningRef /\ completedTokenRef = spinTokenRef
          /\ ends[spinTokenRef] = 1
     /\ Calling = "onSpinStart" => isSpinningRef
     /\ (isSpinningRef /\ ~isSpinningRef' /\ mounted' = mounted) =>
          /\ completedTokenRef' = spinTokenRef /\ calling' = <<>>
          /\ Calling = "onSpinEnd" \/ ends[spinTokenRef] = 0
     /\ (calling # <<>> /\ lastCall' # lastCall) =>
          UNCHANGED <<props, refs, display, pending, calling, lastSpin,
                      startCount, ends, lastEnd>>
     /\ \A tok \in 1..Len(ends) : ends[tok] <= 1]_vars

\* the second spin completed with one delivery after spin() was called again
\* from inside its onSpinEnd
C18_Witness ==
  /\ lastCall # <<>> /\ lastCall[1].inside = "onSpinEnd"
  /\ ~lastCall[1].started /\ calling = <<>> /\ ~isSpinningRef
  /\ spinTokenRef = 2 /\ CurrentCompleted /\ ends[spinTokenRef] = 1

\* C19 as stated: while onSpinStart runs, the token of the spin it announces
\* has been minted, nothing that the refs of prior work give a handle to is
\* pending any more, and the sequence of the spin has not yet been generated.
C19_StartAfterMint ==
  Calling = "onSpinStart" =>
    /\ spinTokenRef = startCount
    /\ Cancel(pending, HandleRefs) = pending
    /\ lastSpin # <<>> => lastSpin[1].tok < startCount

\* C20 as stated: for every measured dimension, 0 included, the suggested
\* item size is clamp(floor(dimension / 3), 40, axisMax) with axisMax = 80 in
\* vertical and 160 in horizontal orientation.
C20_ClampForEverySize ==
  lastResize # <<>> =>
    measuredSize =
      Max(40, Min(lastResize[1].size \div 3,
                  IF lastResize[1].vert THEN 80 ELSE 160))

\* C20 amended: the same for every measured dimension other than 0; for a
\* measured dimension of 0 the suggested item size is 80 in both orientations.
C20_ClampOrFallback ==
  lastResize # <<>> =>
    measuredSize =
      (IF lastResize[1].size = 0 THEN 80
       ELSE Max(40, Min(lastResize[1].size \div 3,
                        IF lastResize[1].vert THEN 80 ELSE 160)))

\* a horizontal container measured 0 and the suggested item size is 80
C20_Witness ==
  /\ lastResize # <<>> /\ lastResize[1].size = 0 /\ ~lastResize[1].vert
  /\ measuredSize = 80 /\ ~isVertical

\* C21 as stated: while a spin is live the displayed sequence is the one that
\* spin generated, and while onSpinEnd(item) runs, item is the element at
\* closestIndex of the displayed sequence, whatever re-renders with a changed
\* pool size, reelItemCount or orientation came in between.
C21_SequenceImmutable ==
  /\ (isSpinningRef /\ lastSpin # <<>> /\ spinTokenRef = startCount) =>
       items = lastSpin[1].seq
  /\ (Calling = "onSpinEnd" /\ EndOfLastSpin) =>
       LET env == lastSpin[1]
           closestIndex ==
             ClampedClosestIndex(env.forced, env.fti, Len(env.seq),
                                 env.target, env.total)
       IN  /\ closestIndex < Len(items)
           /\ items[closestIndex + 1] = lastEnd[1].item

\* the ref that the engine stores the handle of a continuation of the given
\* kind in
RefOfKind(kind) ==
  CASE kind = "start" -> startTimeoutRef
    [] kind \in {"animate", "twist"} -> animationFrameRef
    [] kind = "twistFinish" -> twistFinishTimeoutRef
    [] kind = "finish" -> finishTimeoutRef

\* C22: at every moment at most one deferred continuation is pending (the
\* start timer, one frame request, the twist-finish grace timer or the
\* min-duration re-arm timer), its handle is the one stored in its ref, and
\* cancelling the handles stored in the refs leaves nothing pending.
C22_OnePendingHeldByRef ==
  /\ Cardinality(pending) <= 1
  /\ \A t \in pending : t.id # Null /\ t.id = RefOfKind(t.kind)
  /\ Cancel(pending, HandleRefs) = {}

\* the min-duration re-arm timer is the one continuation pending, held by
\* finishTimeoutRef, while the other refs still hold the handles of the
\* continuations that ran before it
C22_Witness ==
  /\ \E t \in pending :
       /\ pending = {t} /\ t.kind = "finish" /\ finishTimeoutRef = t.id
  /\ isSpinningRef
  /\ Null \notin {startTimeoutRef, animationFrameRef, twistFinishTimeoutRef}

\* C23 as stated: once the cleanup has run, no onSpinStart and no onSpinEnd
\* is called and no frame request or timer is pending; a spin() call made
\* after it starts nothing.
C23_SilentAfterTeardown ==
  /\ ~mounted => calling = <<>> /\ pending = {}
  /\ (lastCall # <<>> /\ ~lastCall[1].mounted) => ~lastCall[1].started
  /\ lastEnd # <<>> => lastEnd[1].mounted

====
